---- MODULE Spec2Model ----
(***************************************************************************)
(* A model of pkg/skbn/s3.go: the S3 transfer layer of skbn.               *)
(*                                                                         *)
(* Strings are sequences of one-character strings, byte streams are        *)
(* sequences of small integers.  The object store, the session factory and *)
(* the caller's reader and writer are the environment: every outcome the   *)
(* code can observe from them is a nondeterministic choice.                *)
(***************************************************************************)
EXTENDS Integers, Sequences, FiniteSets, TLC

VARIABLES
    \* GetClientToS3
    gcPc, gcBucket, gcAttempt, gcS, gcErr, gcRet, gcLog,
    \* the session the caller holds, and the object store
    session, store,
    \* DownloadFromS3
    dlPc, dlBucket, dlKey, dlAttempt, dlErr, dlSink, dlLog, dlAfterUp,
    \* UploadToS3
    upPc, upBucket, upKey, upAttempt, upErr, upSource, upReader, upLog,
    upTo, upFrom,
    \* path resolution on its own
    pPath, pHint, pOut,
    \* GetListOfFilesFromS3
    lsPc, lsPath, lsBucket, lsPrefix, lsObjects, lsPending, lsPages, lsOut, lsRet,
    \* calculatePartSize
    psSize, psOut,
    \* two invocations running at once, and the err they share
    cKind, cPc, cAttempt, cErr, cLog, cRet, pkgErr

gcVars == <<gcPc, gcBucket, gcAttempt, gcS, gcErr, gcRet, gcLog>>
dlVars == <<dlPc, dlBucket, dlKey, dlAttempt, dlErr, dlSink, dlLog, dlAfterUp>>
upVars == <<upPc, upBucket, upKey, upAttempt, upErr, upSource, upReader, upLog,
            upTo, upFrom>>
pVars == <<pPath, pHint, pOut>>
lsVars == <<lsPc, lsPath, lsBucket, lsPrefix, lsObjects, lsPending, lsPages, lsOut, lsRet>>
psVars == <<psSize, psOut>>
cVars == <<cKind, cPc, cAttempt, cErr, cLog, cRet, pkgErr>>
\* what the calls of Spec leave alone
aloneVars == <<pVars, lsVars, psVars, cVars>>
vars == <<gcVars, session, store, dlVars, upVars, pVars, lsVars, psVars, cVars>>

----------------------------------------------------------------------------
(* Bounds of the model. *)

\* longest logical path explored by the path resolver
MaxPathLen == 4
\* longest source hint (fromPath) explored by the path resolver
MaxHintLen == 3
\* longest source stream handed to UploadToS3
MaxSrcLen == 2
\* longest key of an object the lister's bucket holds
MaxKeyLen == 3
\* most objects the lister's bucket holds
MaxListKeys == 2
\* how far around 0 and around the 5 MiB floor the file sizes go
SizeWindow == 4

\* the characters paths are made of: a name character, the dot, the separator
PathChars == {"a", ".", "/"}

Min(a, b) == IF a < b THEN a ELSE b

RECURSIVE SeqsUpTo(_, _)
SeqsUpTo(S, n) ==
    IF n = 0 THEN {<<>>}
    ELSE LET shorter == SeqsUpTo(S, n - 1)
         IN  shorter \cup {Append(s, c) : s \in {t \in shorter : Len(t) = n - 1}, c \in S}

----------------------------------------------------------------------------
(* The string functions of the Go library the code calls. *)

Sep == "/"

HasSep(s) == \E i \in 1..Len(s) : s[i] = Sep
FirstSep(s) == CHOOSE i \in 1..Len(s) : s[i] = Sep /\ \A j \in 1..(i - 1) : s[j] # Sep
LastSep(s) == CHOOSE i \in 1..Len(s) : s[i] = Sep /\ \A j \in (i + 1)..Len(s) : s[j] # Sep

\* strings.Split(s, "/"): always at least one segment, "" gives <<"">>
RECURSIVE Split(_)
Split(s) ==
    IF HasSep(s)
    THEN <<SubSeq(s, 1, FirstSep(s) - 1)>> \o Split(SubSeq(s, FirstSep(s) + 1, Len(s)))
    ELSE <<s>>

\* strings.Join(elems, "/")
RECURSIVE StringsJoin(_)
StringsJoin(elems) ==
    IF elems = <<>> THEN <<>>
    ELSE IF Len(elems) = 1 THEN elems[1]
    ELSE elems[1] \o <<Sep>> \o StringsJoin(Tail(elems))

Dot == <<".">>
DotDot == <<".", ".">>

\* The elements filepath.Clean keeps, left to right: empty elements and "."
\* are dropped, ".." removes the element before it, is dropped at the root of a
\* rooted path and is kept where a relative path has nothing left to remove.
RECURSIVE CleanElems(_, _, _)
CleanElems(elems, out, rooted) ==
    IF elems = <<>> THEN out
    ELSE LET e == Head(elems)
             rest == Tail(elems)
         IN  IF e = <<>> \/ e = Dot THEN CleanElems(rest, out, rooted)
             ELSE IF e = DotDot
                  THEN IF out # <<>> /\ out[Len(out)] # DotDot
                       THEN CleanElems(rest, SubSeq(out, 1, Len(out) - 1), rooted)
                       ELSE IF rooted THEN CleanElems(rest, out, rooted)
                       ELSE CleanElems(rest, Append(out, e), rooted)
                  ELSE CleanElems(rest, Append(out, e), rooted)

\* filepath.Clean(p), Unix separators
Clean(p) ==
    IF p = <<>> THEN Dot
    ELSE LET rooted == p[1] = Sep
             kept == StringsJoin(CleanElems(Split(p), <<>>, rooted))
         IN  IF rooted THEN <<Sep>> \o kept
             ELSE IF kept = <<>> THEN Dot ELSE kept

\* filepath.Join(elems...): empty elements are ignored, the rest is joined and
\* cleaned; no non-empty element gives ""
RECURSIVE FilepathJoin(_)
FilepathJoin(elems) ==
    IF elems = <<>> THEN <<>>
    ELSE IF Head(elems) = <<>> THEN FilepathJoin(Tail(elems))
    ELSE Clean(StringsJoin(elems))

\* filepath.Split(path): <<dir, file>>, file is what follows the last separator
FilepathSplit(p) ==
    IF HasSep(p) THEN <<SubSeq(p, 1, LastSep(p)), SubSeq(p, LastSep(p) + 1, Len(p))>>
    ELSE <<<<>>, p>>

----------------------------------------------------------------------------
(* Errors.  An error value remembers the call and the attempt it came from. *)

Nil == [kind |-> "nil", attempt |-> 0]
Err(kind, attempt) == [kind |-> kind, attempt |-> attempt]

----------------------------------------------------------------------------
(* Path resolution. *)

\* validateS3Path: nil for a segment list of at least one segment
validateS3Path(pathSplit) ==
    IF Len(pathSplit) >= 1 THEN Nil ELSE Err("illegal path", 0)

\* initS3Variables: <<bucket, path>>
initS3Variables(split) == <<split[1], FilepathJoin(Tail(split))>>

\* a resolution that forgets the file name of fromPath
UploadSplitNoDefault(toPath, fromPath) == Split(toPath)

\* the segment list UploadToS3 resolves: a destination of one segment gets the
\* file name of fromPath appended
UploadSplit(toPath, fromPath) ==
    LET pSplit == Split(toPath)
    IN  IF Len(pSplit) = 1 THEN Append(pSplit, FilepathSplit(fromPath)[2]) ELSE pSplit

----------------------------------------------------------------------------
(* The inputs the operations are called with. *)

Str1(a) == <<a>>
Str3(a, b, c) == <<a, b, c>>

\* the path GetClientToS3 is called with
GcPaths == {Str3("b", "/", "k")}
\* the paths DownloadFromS3 is called with
DlPaths == {Str3("b", "/", "k"), Str3("b", "/", "f")}
\* the destinations and the source hints UploadToS3 is called with
ToPaths == {Str1("b"), Str3("b", "/", "k"), <<"b", "/">>}
FromPaths == {Str3("d", "/", "f"), <<"d", "/">>, Str1("f"), Str3("d", "/", ".")}
\* the source streams UploadToS3 is called with: every length up to the bound,
\* each byte different from the others (the code never looks at a byte's value
\* to decide what it does with the stream)
Sources == {[i \in 1..n |-> i] : n \in 0..MaxSrcLen}

\* the store before the first call holds one object; b/f is missing
NoObjects == [x \in {} |-> <<>>]
InitStores == {[x \in {<<Str1("b"), Str1("k")>>} |-> <<8, 9>>]}

HasObject(st, bucket, key) == <<bucket, key>> \in DOMAIN st
PutObject(st, bucket, key, data) ==
    [x \in DOMAIN st \cup {<<bucket, key>>} |-> IF x = <<bucket, key>> THEN data ELSE st[x]]

\* a session is known by the attempt that built it; no attempt builds the nil session
SessionOf(attempt) == [id |-> attempt]
NoSession == [id |-> 0]
NotReturned == [s |-> NoSession, err |-> Nil, returned |-> FALSE]
Return(s, err) == [s |-> s, err |-> err, returned |-> TRUE]

\* one entry of an operation's log: a call it made, in the order it made them
Event(ev, attempt, ok, n, key, data) ==
    [ev |-> ev, attempt |-> attempt, ok |-> ok, n |-> n, key |-> key, data |-> data]

----------------------------------------------------------------------------
(* GetClientToS3 *)

\* a backoff that is given the number of the attempt to come
BackoffNext(attempt) == attempt + 1

\* lines 35, 51, 128 and 209: the argument of utils.Sleep
Backoff(attempt) == attempt

gcAttempts == 3

\* a give-up that hands the session back with the error
GcGiveUpKeepsSession(s, err) == Return(s, err)

\* lines 33 and 45: return nil, err
GcGiveUp(s, err) == Return(NoSession, err)

\* a construction that gives up one attempt early
GcNewSessionLastEarly(attempt) == attempt >= gcAttempts - 1

\* line 32: the failed construction was the last attempt
GcNewSessionLast(attempt) == attempt = gcAttempts
\* a probe that never sees the last attempt
GcProbeLastNever(attempt) == attempt > gcAttempts

\* line 43: the probe was the last attempt
GcProbeLast(attempt) == attempt = gcAttempts

GcCall(path) ==
    /\ gcPc = "idle"
    /\ gcBucket' = initS3Variables(Split(path))[1]
    /\ gcAttempt' = 0
    /\ gcPc' = "loop"
    /\ UNCHANGED <<gcS, gcErr, gcRet, gcLog, session>>

\* line 27: the loop condition; line 54 when it fails
GcLoop ==
    /\ gcPc = "loop"
    /\ IF gcAttempt < gcAttempts
       THEN /\ gcAttempt' = gcAttempt + 1
            /\ gcPc' = "newSession"
            /\ UNCHANGED <<gcRet, session>>
       ELSE /\ gcPc' = "done"
            /\ gcRet' = Return(NoSession, Nil)
            /\ session' = NoSession
            /\ UNCHANGED gcAttempt
    /\ UNCHANGED <<gcBucket, gcS, gcErr, gcLog>>

\* lines 30-37: getNewSession; the session built in attempt i is session i
GcNewSession(ok) ==
    /\ gcPc = "newSession"
    /\ gcLog' = Append(gcLog, Event("newSession", gcAttempt, ok, 0, <<>>, <<>>))
    /\ IF ok
       THEN /\ gcS' = SessionOf(gcAttempt)
            /\ gcErr' = Nil
            /\ gcPc' = "probe"
            /\ UNCHANGED <<gcRet, session>>
       ELSE /\ gcS' = NoSession
            /\ gcErr' = Err("session", gcAttempt)
            /\ IF GcNewSessionLast(gcAttempt)
               THEN /\ gcPc' = "done"
                    /\ gcRet' = GcGiveUp(NoSession, Err("session", gcAttempt))
                    /\ session' = NoSession
               ELSE /\ gcPc' = "sleep"
                    /\ UNCHANGED <<gcRet, session>>
    /\ UNCHANGED <<gcBucket, gcAttempt>>

\* lines 39-51: the probe, a listing of no keys of the bucket
GcProbe(ok) ==
    /\ gcPc = "probe"
    /\ gcLog' = Append(gcLog, Event("probe", gcAttempt, ok, gcS.id, gcBucket, <<>>))
    /\ LET err == IF ok THEN Nil ELSE Err("probe", gcAttempt)
       IN  /\ gcErr' = err
           /\ IF GcProbeLast(gcAttempt) /\ err # Nil
              THEN /\ gcPc' = "done"
                   /\ gcRet' = GcGiveUp(gcS, err)
                   /\ session' = NoSession
              ELSE IF err = Nil
                   THEN /\ gcPc' = "done"
                        /\ gcRet' = Return(gcS, Nil)
                        /\ session' = gcS
                   ELSE /\ gcPc' = "sleep"
                        /\ UNCHANGED <<gcRet, session>>
    /\ UNCHANGED <<gcBucket, gcAttempt, gcS>>

\* lines 35 and 51: utils.Sleep(attempt), then the next turn of the loop
GcSleep ==
    /\ gcPc = "sleep"
    /\ gcLog' = Append(gcLog, Event("sleep", gcAttempt, TRUE, Backoff(gcAttempt), <<>>, <<>>))
    /\ gcPc' = "loop"
    /\ UNCHANGED <<gcBucket, gcAttempt, gcS, gcErr, gcRet, session>>

GetClientToS3 ==
    /\ \/ \E path \in GcPaths : GcCall(path)
       \/ GcLoop
       \/ \E ok \in BOOLEAN : GcNewSession(ok)
       \/ \E ok \in BOOLEAN : GcProbe(ok)
       \/ GcSleep
    /\ UNCHANGED <<store, dlVars, upVars, aloneVars>>

----------------------------------------------------------------------------
(* DownloadFromS3 *)

dlAttempts == 3

\* a download that gives up one attempt early
DlLastEarly(attempt) == attempt >= dlAttempts - 1

\* line 122: the failed download was the last attempt
DlLast(attempt) == attempt = dlAttempts

\* writerWrapper.WriteAt: the offset is dropped, p goes to the end of the sink
WriteAt(sink, p, off) == sink \o p

\* lines 85-97
DlCall(path) ==
    /\ dlPc = "idle"
    /\ session # NoSession
    /\ LET pSplit == Split(path)
           err == validateS3Path(pSplit)
       IN  IF err # Nil
           THEN /\ dlPc' = "done"
                /\ dlErr' = err
                /\ UNCHANGED <<dlBucket, dlKey, dlAfterUp>>
           ELSE /\ dlBucket' = initS3Variables(pSplit)[1]
                /\ dlKey' = initS3Variables(pSplit)[2]
                /\ dlAfterUp' = /\ upPc = "done"
                                /\ upErr = Nil
                                /\ upBucket = initS3Variables(pSplit)[1]
                                /\ upKey = initS3Variables(pSplit)[2]
                /\ dlPc' = "loop"
                /\ UNCHANGED dlErr
    /\ dlAttempt' = 0
    /\ UNCHANGED <<dlSink, dlLog>>

\* line 98: the loop condition; line 134 when it fails
DlLoop ==
    /\ dlPc = "loop"
    /\ IF dlAttempt < dlAttempts
       THEN /\ dlAttempt' = dlAttempt + 1
            /\ dlPc' = "download"
            /\ UNCHANGED dlErr
       ELSE /\ dlPc' = "done"
            /\ dlErr' = Nil
            /\ UNCHANGED dlAttempt
    /\ UNCHANGED <<dlBucket, dlKey, dlSink, dlLog, dlAfterUp>>

\* lines 105-131: one downloader.Download.  With Concurrency 1 the object's
\* bytes reach WriteAt in offset order; a successful call has written all of
\* them, a failed one the first n of them (none when the object is missing).
DlDownload(ok) ==
    /\ dlPc = "download"
    /\ ok => HasObject(store, dlBucket, dlKey)
    /\ LET obj == IF HasObject(store, dlBucket, dlKey) THEN store[<<dlBucket, dlKey>>] ELSE <<>>
           err == IF ok THEN Nil ELSE Err("download", dlAttempt)
       IN  /\ \E n \in 0..Len(obj) :
                /\ ok => n = Len(obj)
                /\ (~ok /\ obj # <<>>) => n < Len(obj)
                /\ dlSink' = WriteAt(dlSink, SubSeq(obj, 1, n), 0)
                /\ dlLog' = Append(dlLog, Event("download", dlAttempt, ok, n, dlKey, obj))
           /\ IF err # Nil
              THEN IF DlLast(dlAttempt)
                   THEN /\ dlPc' = "done"
                        /\ dlErr' = err
                   ELSE /\ dlPc' = "sleep"
                        /\ UNCHANGED dlErr
              ELSE /\ dlPc' = "done"
                   /\ dlErr' = Nil
    /\ UNCHANGED <<dlBucket, dlKey, dlAttempt, dlAfterUp>>

\* line 128: utils.Sleep(attempt), then the next turn of the loop
DlSleep ==
    /\ dlPc = "sleep"
    /\ dlLog' = Append(dlLog, Event("sleep", dlAttempt, TRUE, Backoff(dlAttempt), <<>>, <<>>))
    /\ dlPc' = "loop"
    /\ UNCHANGED <<dlBucket, dlKey, dlAttempt, dlErr, dlSink, dlAfterUp>>

DownloadFromS3 ==
    /\ \/ \E path \in DlPaths : DlCall(path)
       \/ DlLoop
       \/ \E ok \in BOOLEAN : DlDownload(ok)
       \/ DlSleep
    /\ UNCHANGED <<gcVars, session, store, upVars, aloneVars>>

----------------------------------------------------------------------------
(* UploadToS3 *)

upAttempts == 3

\* line 177: the buffer of the read that precedes every upload
PeekSize == 512

\* an upload that never sees the last attempt
UpLastNever(attempt) == attempt > upAttempts

\* line 203: the failed upload was the last attempt
UpLast(attempt) == attempt = upAttempts

\* line 189: the body handed to uploader.Upload is the reader itself, at the
\* position the read of line 179 left it
UploadBody(source, reader) == reader

\* lines 146-162
UpCall(toPath, fromPath, source) ==
    /\ upPc = "idle"
    /\ session # NoSession
    /\ upTo' = toPath
    /\ upFrom' = fromPath
    /\ upSource' = source
    /\ upReader' = source
    /\ upAttempt' = 0
    /\ LET err == validateS3Path(Split(toPath))
           pSplit == UploadSplit(toPath, fromPath)
       IN  IF err # Nil
           THEN /\ upPc' = "done"
                /\ upErr' = err
                /\ UNCHANGED <<upBucket, upKey>>
           ELSE /\ upBucket' = initS3Variables(pSplit)[1]
                /\ upKey' = initS3Variables(pSplit)[2]
                /\ upPc' = "loop"
                /\ UNCHANGED upErr
    /\ UNCHANGED <<upLog, store>>

\* line 163: the loop condition; line 215 when it fails
UpLoop ==
    /\ upPc = "loop"
    /\ IF upAttempt < upAttempts
       THEN /\ upAttempt' = upAttempt + 1
            /\ upPc' = "read"
            /\ UNCHANGED upErr
       ELSE /\ upPc' = "done"
            /\ upErr' = Nil
            /\ UNCHANGED upAttempt
    /\ UNCHANGED <<upBucket, upKey, upSource, upReader, upLog, upTo, upFrom, store>>

\* a test that takes the end of the stream for a failure
UpReadFailsOnEOF(res) == res # "ok"

\* line 181: err != nil && err != io.EOF
UpReadFails(res) == res = "error"

\* lines 177-184: reader.Read(buf).  A Read takes n bytes off the stream:
\* at least one when it returns no error and bytes are left, all that is left
\* when it reports the end of the stream, any number when it fails.
UpRead(res, n) ==
    /\ upPc = "read"
    /\ n <= Min(PeekSize, Len(upReader))
    /\ res = "ok" => n >= 1
    /\ res = "EOF" => n = Len(upReader)
    /\ upReader' = SubSeq(upReader, n + 1, Len(upReader))
    /\ upLog' = Append(upLog, Event("read", upAttempt, res # "error", n, <<>>,
                                    SubSeq(upReader, 1, n)))
    /\ IF UpReadFails(res)
       THEN /\ upPc' = "done"
            /\ upErr' = Err("read", upAttempt)
       ELSE /\ upPc' = "upload"
            /\ upErr' = IF res = "EOF" THEN Err("EOF", upAttempt) ELSE Nil
    /\ UNCHANGED <<upBucket, upKey, upAttempt, upSource, upTo, upFrom, store>>

\* lines 186-212: one uploader.Upload.  A successful call has read the body
\* to its end and stored it; a failed one has read the first n bytes of it and
\* stored nothing.  The store takes no object without a bucket or a key.
UpUpload(ok) ==
    /\ upPc = "upload"
    /\ ok => (upBucket # <<>> /\ upKey # <<>>)
    /\ LET body == UploadBody(upSource, upReader)
           err == IF ok THEN Nil ELSE Err("upload", upAttempt)
       IN  /\ upLog' = Append(upLog, Event("upload", upAttempt, ok, Len(body), upKey, body))
           /\ IF ok
              THEN /\ store' = PutObject(store, upBucket, upKey, body)
                   /\ upReader' = <<>>
              ELSE /\ \E n \in 0..Len(upReader) :
                        upReader' = SubSeq(upReader, n + 1, Len(upReader))
                   /\ UNCHANGED store
           /\ IF err # Nil
              THEN IF UpLast(upAttempt)
                   THEN /\ upPc' = "done"
                        /\ upErr' = err
                   ELSE /\ upPc' = "sleep"
                        /\ upErr' = err
              ELSE /\ upPc' = "done"
                   /\ upErr' = Nil
    /\ UNCHANGED <<upBucket, upKey, upAttempt, upSource, upTo, upFrom>>

\* line 209: utils.Sleep(attempt), then the next turn of the loop
UpSleep ==
    /\ upPc = "sleep"
    /\ upLog' = Append(upLog, Event("sleep", upAttempt, TRUE, Backoff(upAttempt), <<>>, <<>>))
    /\ upPc' = "loop"
    /\ UNCHANGED <<upBucket, upKey, upAttempt, upErr, upSource, upReader, upTo, upFrom, store>>

UploadToS3 ==
    /\ \/ \E toPath \in ToPaths, fromPath \in FromPaths, source \in Sources :
            UpCall(toPath, fromPath, source)
       \/ UpLoop
       \/ \E res \in {"ok", "EOF", "error"}, n \in 0..MaxSrcLen : UpRead(res, n)
       \/ \E ok \in BOOLEAN : UpUpload(ok)
       \/ UpSleep
    /\ UNCHANGED <<gcVars, session, dlVars, aloneVars>>

----------------------------------------------------------------------------
(* Path resolution on its own: every path and hint up to the bounds. *)

Paths == SeqsUpTo(PathChars, MaxPathLen)
Hints == SeqsUpTo(PathChars, MaxHintLen)

NotResolved == [op |-> "none", err |-> Nil, bucket |-> <<>>, key |-> <<>>]

\* validateS3Path, then initS3Variables, as the list, download and upload
\* operations call them
ResolvePath ==
    /\ pOut.op = "none"
    /\ LET pSplit == Split(pPath)
       IN  pOut' = [op |-> "resolve",
                    err |-> validateS3Path(pSplit),
                    bucket |-> initS3Variables(pSplit)[1],
                    key |-> initS3Variables(pSplit)[2]]
    /\ UNCHANGED <<pPath, pHint>>

\* the resolution of UploadToS3, which looks at fromPath too
ResolveUpload ==
    /\ pOut.op = "none"
    /\ LET pSplit == UploadSplit(pPath, pHint)
       IN  pOut' = [op |-> "upload",
                    err |-> validateS3Path(Split(pPath)),
                    bucket |-> initS3Variables(pSplit)[1],
                    key |-> initS3Variables(pSplit)[2]]
    /\ UNCHANGED <<pPath, pHint>>

----------------------------------------------------------------------------
(* GetListOfFilesFromS3 *)

\* the first place old occurs in s, 0 when it does not
Index(s, old) ==
    LET at == {i \in 1..(Len(s) - Len(old) + 1) : SubSeq(s, i, i + Len(old) - 1) = old}
    IN  IF at = {} THEN 0 ELSE CHOOSE i \in at : \A j \in at : i <= j

\* strings.Replace with an empty old: new goes before each character and at
\* the end, n times at most
RECURSIVE ReplaceEmpty(_, _, _)
ReplaceEmpty(s, new, n) ==
    IF n = 0 THEN s
    ELSE IF s = <<>> THEN new
    ELSE new \o <<Head(s)>> \o ReplaceEmpty(Tail(s), new, n - 1)

\* strings.Replace(s, old, new, n): the first n occurrences of old, left to
\* right and not overlapping, become new; all of them when n < 0
RECURSIVE StringsReplace(_, _, _, _)
StringsReplace(s, old, new, n) ==
    IF n = 0 THEN s
    ELSE IF old = <<>> THEN ReplaceEmpty(s, new, n)
    ELSE IF Index(s, old) = 0 THEN s
    ELSE SubSeq(s, 1, Index(s, old) - 1) \o new
            \o StringsReplace(SubSeq(s, Index(s, old) + Len(old), Len(s)), old, new, n - 1)

\* a stripping that removes every occurrence of the prefix
StripPrefixAll(line, s3Path) == StringsReplace(line, s3Path, <<>>, -1)

\* line 73: strings.Replace(line, s3Path, "", 1)
StripPrefix(line, s3Path) == StringsReplace(line, s3Path, <<>>, 1)

\* a callback that stops the enumeration
LsCallbackStops(page, last) == FALSE

\* line 75: the page callback's shouldContinue
LsCallback(page, last) == TRUE

\* a failure that hands back the lines collected so far
LsFailureKeepsLines(outLines, e) == [lines |-> outLines, err |-> e, returned |-> TRUE]

\* lines 77-79: return nil, err
LsFailure(outLines, e) == [lines |-> <<>>, err |-> e, returned |-> TRUE]

\* the order the store lists keys in: bytewise, "." before "/" before letters
CharRank(c) == IF c = "." THEN 46 ELSE IF c = "/" THEN 47 ELSE 97

RECURSIVE KeyLess(_, _)
KeyLess(s, t) ==
    IF t = <<>> THEN FALSE
    ELSE IF s = <<>> THEN TRUE
    ELSE IF CharRank(Head(s)) # CharRank(Head(t)) THEN CharRank(Head(s)) < CharRank(Head(t))
    ELSE KeyLess(Tail(s), Tail(t))

RECURSIVE SortKeys(_)
SortKeys(S) ==
    IF S = {} THEN <<>>
    ELSE LET first == CHOOSE k \in S : \A other \in S \ {k} : KeyLess(k, other)
         IN  <<first>> \o SortKeys(S \ {first})

HasPrefix(s, prefix) == Len(s) >= Len(prefix) /\ SubSeq(s, 1, Len(prefix)) = prefix

\* what ListObjects with Prefix answers: the keys that start with the prefix
KeysUnder(objects, prefix) == SortKeys({k \in objects : HasPrefix(k, prefix)})

RECURSIVE StripAll(_, _)
StripAll(keys, s3Path) ==
    IF keys = <<>> THEN <<>>
    ELSE <<StripPrefix(Head(keys), s3Path)>> \o StripAll(Tail(keys), s3Path)

\* the paths GetListOfFilesFromS3 is called with
LsPaths == {Str1("b"), Str3("b", "/", "a"), <<"b", "/", "a", "/">>, <<"b", "/", "a", "a">>,
            <<"b", "/", "a", "/", "a">>}
\* the keys the bucket may hold
LsKeys == SeqsUpTo({"a", "/"}, MaxKeyLen) \ {<<>>}
LsBuckets == {S \in SUBSET LsKeys : Cardinality(S) <= MaxListKeys}

LsNotReturned == [lines |-> <<>>, err |-> Nil, returned |-> FALSE]

\* lines 58-69: up to the call of ListObjectsPages
LsCall(path) ==
    /\ lsPc = "idle"
    /\ lsPath' = path
    /\ LET pSplit == Split(path)
           e == validateS3Path(pSplit)
       IN  IF e # Nil
           THEN /\ lsPc' = "done"
                /\ lsRet' = [lines |-> <<>>, err |-> e, returned |-> TRUE]
                /\ UNCHANGED <<lsBucket, lsPrefix, lsPending>>
           ELSE /\ lsBucket' = initS3Variables(pSplit)[1]
                /\ lsPrefix' = initS3Variables(pSplit)[2]
                /\ lsPending' = KeysUnder(lsObjects, initS3Variables(pSplit)[2])
                /\ lsPc' = "page"
                /\ UNCHANGED lsRet
    /\ UNCHANGED <<lsObjects, lsPages, lsOut>>

\* lines 67-81: one page of the enumeration.  The store answers with the next
\* n keys and says whether they are the last, or the request fails; the
\* callback appends a line for each key of the page.
LsPage(ok, n) ==
    /\ lsPc = "page"
    /\ n <= Len(lsPending)
    /\ lsPending # <<>> => n >= 1
    /\ IF ~ok
       THEN /\ lsPc' = "done"
            /\ lsRet' = LsFailure(lsOut, Err("list", Len(lsPages) + 1))
            /\ UNCHANGED <<lsPending, lsPages, lsOut>>
       ELSE LET page == SubSeq(lsPending, 1, n)
                rest == SubSeq(lsPending, n + 1, Len(lsPending))
                last == rest = <<>>
                outLines == lsOut \o StripAll(page, lsPrefix)
            IN  /\ lsPages' = Append(lsPages, page)
                /\ lsPending' = rest
                /\ lsOut' = outLines
                /\ IF last \/ ~LsCallback(page, last)
                   THEN /\ lsPc' = "done"
                        /\ lsRet' = [lines |-> outLines, err |-> Nil, returned |-> TRUE]
                   ELSE /\ lsPc' = "page"
                        /\ UNCHANGED lsRet
    /\ UNCHANGED <<lsPath, lsBucket, lsPrefix, lsObjects>>

GetListOfFilesFromS3 ==
    /\ \/ \E path \in LsPaths : LsCall(path)
       \/ \E ok \in BOOLEAN, n \in 0..MaxListKeys : LsPage(ok, n)
    /\ UNCHANGED <<gcVars, session, store, dlVars, upVars, pVars, psVars, cVars>>

----------------------------------------------------------------------------
(* calculatePartSize *)

\* line 220
maxParts == 10000

\* lines 222-223: 5*1024*1024
MinPartSize == 5 * 1024 * 1024

\* An int64 file size.  The sizes that matter lie around 5 MiB * 10000, past
\* the integers TLC computes with, so a size is kept as its quotient hi and
\* its remainder lo by maxParts: the size is hi * maxParts + lo.
Size(hi, lo) == [hi |-> hi, lo |-> lo]

\* line 221: fileSize / maxParts, the division of non-negative integers
DivMaxParts(fileSize) == fileSize.hi

\* lines 219-226
calculatePartSize(fileSize) ==
    LET partSize == DivMaxParts(fileSize)
    IN  IF partSize < MinPartSize THEN MinPartSize ELSE partSize

\* the file sizes calculatePartSize is called with: none is negative
FileSizes ==
    {Size(hi, lo) : hi \in (0..SizeWindow) \cup ((MinPartSize - SizeWindow)..(MinPartSize + SizeWindow)),
                    lo \in (0..SizeWindow) \cup {maxParts - 1}}

NotSized == [done |-> FALSE, partSize |-> 0]

CalcPartSize ==
    /\ ~psOut.done
    /\ psOut' = [done |-> TRUE, partSize |-> calculatePartSize(psSize)]
    /\ UNCHANGED psSize

NextPart ==
    /\ CalcPartSize
    /\ UNCHANGED <<gcVars, session, store, dlVars, upVars, pVars, lsVars, cVars>>

----------------------------------------------------------------------------
(* Two invocations at once.                                                 *)
(*                                                                          *)
(* DownloadFromS3 declares its err in the loop (line 108, :=).  UploadToS3  *)
(* declares none: lines 179 and 186 assign with = to an err that is not a   *)
(* parameter, a result or a local of the function (the err of line 149      *)
(* lives only in its if statement), so it is a variable of the package,     *)
(* pkgErr here, and every UploadToS3 running writes and reads the same one. *)
(* Each step below is one access to it.  The streams and the keys are each  *)
(* invocation's own and are left out; Spec has them.                        *)

Invocations == {"first", "second"}

\* an error value, and the invocation whose call produced it
CErr(p, kind, attempt) == [kind |-> kind, attempt |-> attempt, by |-> p]
CNil == [kind |-> "nil", attempt |-> 0, by |-> "nobody"]
CNotReturned == [err |-> CNil, returned |-> FALSE]
CReturn(e) == [err |-> e, returned |-> TRUE]

\* what an invocation remembers of its calls: how many store calls it made,
\* and its last call with the error that call got back
CEvent(ev, attempt, e) == [ev |-> ev, attempt |-> attempt, err |-> e]
CNoCalls == [calls |-> 0, last |-> CEvent("none", 0, CNil)]
CLogged(log, ev, attempt, e) ==
    [calls |-> log.calls + (IF ev = "read" THEN 0 ELSE 1), last |-> CEvent(ev, attempt, e)]

\* lines 85-97 and 146-162, with a valid path
CCall(p, kind) ==
    /\ cPc[p] = "idle"
    /\ session # NoSession
    /\ cKind' = [cKind EXCEPT ![p] = kind]
    /\ cAttempt' = [cAttempt EXCEPT ![p] = 0]
    /\ cPc' = [cPc EXCEPT ![p] = "loop"]
    /\ UNCHANGED <<cErr, cLog, cRet, pkgErr>>

\* lines 98 and 163: the loop condition; lines 134 and 215 when it fails
CLoop(p) ==
    /\ cPc[p] = "loop"
    /\ IF cAttempt[p] < (IF cKind[p] = "download" THEN dlAttempts ELSE upAttempts)
       THEN /\ cAttempt' = [cAttempt EXCEPT ![p] = @ + 1]
            /\ cPc' = [cPc EXCEPT ![p] = IF cKind[p] = "download" THEN "download" ELSE "read"]
            /\ UNCHANGED cRet
       ELSE /\ cPc' = [cPc EXCEPT ![p] = "done"]
            /\ cRet' = [cRet EXCEPT ![p] = CReturn(CNil)]
            /\ UNCHANGED cAttempt
    /\ UNCHANGED <<cKind, cErr, cLog, pkgErr>>

\* lines 108-131: the download and the test of its own err
CDownload(p, ok) ==
    /\ cPc[p] = "download"
    /\ LET e == IF ok THEN CNil ELSE CErr(p, "download", cAttempt[p])
       IN  /\ cErr' = [cErr EXCEPT ![p] = e]
           /\ cLog' = [cLog EXCEPT ![p] = CLogged(@, "download", cAttempt[p], e)]
           /\ IF e # CNil
              THEN IF DlLast(cAttempt[p])
                   THEN /\ cPc' = [cPc EXCEPT ![p] = "done"]
                        /\ cRet' = [cRet EXCEPT ![p] = CReturn(e)]
                   ELSE /\ cPc' = [cPc EXCEPT ![p] = "sleep"]
                        /\ UNCHANGED cRet
              ELSE /\ cPc' = [cPc EXCEPT ![p] = "done"]
                   /\ cRet' = [cRet EXCEPT ![p] = CReturn(CNil)]
    /\ UNCHANGED <<cKind, cAttempt, pkgErr>>

\* line 179: n, err = reader.Read(buf)
CRead(p, res) ==
    /\ cPc[p] = "read"
    /\ LET e == IF res = "ok" THEN CNil ELSE CErr(p, res, cAttempt[p])
       IN  /\ pkgErr' = e
           /\ cLog' = [cLog EXCEPT ![p] = CLogged(@, "read", cAttempt[p], e)]
    /\ cPc' = [cPc EXCEPT ![p] = "readTest"]
    /\ UNCHANGED <<cKind, cAttempt, cErr, cRet>>

\* line 181: err != nil && err != io.EOF
CReadTest(p) ==
    /\ cPc[p] = "readTest"
    /\ cPc' = [cPc EXCEPT ![p] = IF pkgErr # CNil /\ pkgErr.kind # "EOF"
                                 THEN "readReturn" ELSE "upload"]
    /\ UNCHANGED <<cKind, cAttempt, cErr, cLog, cRet, pkgErr>>

\* line 183: return err
CReadReturn(p) ==
    /\ cPc[p] = "readReturn"
    /\ cPc' = [cPc EXCEPT ![p] = "done"]
    /\ cRet' = [cRet EXCEPT ![p] = CReturn(pkgErr)]
    /\ UNCHANGED <<cKind, cAttempt, cErr, cLog, pkgErr>>

\* line 186: _, err = uploader.Upload(...)
CUpload(p, ok) ==
    /\ cPc[p] = "upload"
    /\ LET e == IF ok THEN CNil ELSE CErr(p, "upload", cAttempt[p])
       IN  /\ pkgErr' = e
           /\ cLog' = [cLog EXCEPT ![p] = CLogged(@, "upload", cAttempt[p], e)]
    /\ cPc' = [cPc EXCEPT ![p] = "uploadTest"]
    /\ UNCHANGED <<cKind, cAttempt, cErr, cRet>>

\* lines 198-212: err != nil, attempt == attempts
CUploadTest(p) ==
    /\ cPc[p] = "uploadTest"
    /\ IF pkgErr # CNil
       THEN /\ cPc' = [cPc EXCEPT ![p] = IF UpLast(cAttempt[p]) THEN "uploadReturn" ELSE "sleep"]
            /\ UNCHANGED cRet
       ELSE /\ cPc' = [cPc EXCEPT ![p] = "done"]
            /\ cRet' = [cRet EXCEPT ![p] = CReturn(CNil)]
    /\ UNCHANGED <<cKind, cAttempt, cErr, cLog, pkgErr>>

\* line 207: return err
CUploadReturn(p) ==
    /\ cPc[p] = "uploadReturn"
    /\ cPc' = [cPc EXCEPT ![p] = "done"]
    /\ cRet' = [cRet EXCEPT ![p] = CReturn(pkgErr)]
    /\ UNCHANGED <<cKind, cAttempt, cErr, cLog, pkgErr>>

\* lines 128 and 209: utils.Sleep(attempt)
CSleep(p) ==
    /\ cPc[p] = "sleep"
    /\ cPc' = [cPc EXCEPT ![p] = "loop"]
    /\ UNCHANGED <<cKind, cAttempt, cErr, cLog, cRet, pkgErr>>

NextConc ==
    /\ \E p \in Invocations :
          \/ \E kind \in {"download", "upload"} : CCall(p, kind)
          \/ CLoop(p)
          \/ \E ok \in BOOLEAN : CDownload(p, ok)
          \/ \E res \in {"ok", "EOF", "read"} : CRead(p, res)
          \/ CReadTest(p)
          \/ CReadReturn(p)
          \/ \E ok \in BOOLEAN : CUpload(p, ok)
          \/ CUploadTest(p)
          \/ CUploadReturn(p)
          \/ CSleep(p)
    /\ UNCHANGED <<gcVars, session, store, dlVars, upVars, pVars, lsVars, psVars>>

----------------------------------------------------------------------------
(* Specifications. *)

InitCalls(st) ==
    /\ gcPc = "idle" /\ gcBucket = <<>> /\ gcAttempt = 0
    /\ gcS = NoSession /\ gcErr = Nil /\ gcRet = NotReturned /\ gcLog = <<>>
    /\ session = NoSession
    /\ store = st
    /\ dlPc = "idle" /\ dlBucket = <<>> /\ dlKey = <<>> /\ dlAttempt = 0
    /\ dlErr = Nil /\ dlSink = <<>> /\ dlLog = <<>> /\ dlAfterUp = FALSE
    /\ upPc = "idle" /\ upBucket = <<>> /\ upKey = <<>> /\ upAttempt = 0
    /\ upErr = Nil /\ upSource = <<>> /\ upReader = <<>> /\ upLog = <<>>
    /\ upTo = <<>> /\ upFrom = <<>>

InitPartIdle == psSize = Size(0, 0) /\ psOut = NotSized
InitConcIdle ==
    /\ cKind = [p \in Invocations |-> "none"]
    /\ cPc = [p \in Invocations |-> "idle"]
    /\ cAttempt = [p \in Invocations |-> 0]
    /\ cErr = [p \in Invocations |-> CNil]
    /\ cLog = [p \in Invocations |-> CNoCalls]
    /\ cRet = [p \in Invocations |-> CNotReturned]
    /\ pkgErr = CNil

\* nothing resolved, listed or sized, no invocations running at once
InitPathIdle == pPath = <<>> /\ pHint = <<>> /\ pOut = NotResolved

InitListIdle ==
    /\ lsPc = "idle" /\ lsPath = <<>> /\ lsBucket = <<>> /\ lsPrefix = <<>>
    /\ lsPending = <<>> /\ lsPages = <<>> /\ lsOut = <<>> /\ lsRet = LsNotReturned

Init ==
    /\ \E st \in InitStores : InitCalls(st)
    /\ InitPathIdle
    /\ InitListIdle /\ lsObjects = {}
    /\ InitPartIdle
    /\ InitConcIdle

Next ==
    \/ GetClientToS3
    \/ DownloadFromS3
    \/ UploadToS3

Spec == Init /\ [][Next]_vars

InitPath ==
    /\ InitCalls(NoObjects)
    /\ pPath \in Paths
    /\ pHint \in Hints
    /\ pOut = NotResolved
    /\ InitListIdle /\ lsObjects = {}
    /\ InitPartIdle
    /\ InitConcIdle

NextPath ==
    /\ \/ ResolvePath
       \/ ResolveUpload
    /\ UNCHANGED <<gcVars, session, store, dlVars, upVars, lsVars, psVars, cVars>>

SpecPath == InitPath /\ [][NextPath]_vars

InitList ==
    /\ InitCalls(NoObjects)
    /\ InitPathIdle
    /\ InitListIdle /\ lsObjects \in LsBuckets
    /\ InitPartIdle
    /\ InitConcIdle

SpecList == InitList /\ [][GetListOfFilesFromS3]_vars

InitPart ==
    /\ InitCalls(NoObjects)
    /\ InitPathIdle
    /\ InitListIdle /\ lsObjects = {}
    /\ psSize \in FileSizes /\ psOut = NotSized
    /\ InitConcIdle

SpecPart == InitPart /\ [][NextPart]_vars

\* the state GetClientToS3 leaves when its first probe succeeds, nothing else begun
InitConc ==
    /\ gcPc = "done" /\ gcBucket = Str1("b") /\ gcAttempt = 1
    /\ gcS = SessionOf(1) /\ gcErr = Nil /\ gcRet = Return(SessionOf(1), Nil)
    /\ gcLog = <<Event("newSession", 1, TRUE, 0, <<>>, <<>>),
                 Event("probe", 1, TRUE, 1, Str1("b"), <<>>)>>
    /\ session = SessionOf(1)
    /\ store \in InitStores
    /\ dlPc = "idle" /\ dlBucket = <<>> /\ dlKey = <<>> /\ dlAttempt = 0
    /\ dlErr = Nil /\ dlSink = <<>> /\ dlLog = <<>> /\ dlAfterUp = FALSE
    /\ upPc = "idle" /\ upBucket = <<>> /\ upKey = <<>> /\ upAttempt = 0
    /\ upErr = Nil /\ upSource = <<>> /\ upReader = <<>> /\ upLog = <<>>
    /\ upTo = <<>> /\ upFrom = <<>>
    /\ InitPathIdle
    /\ InitListIdle /\ lsObjects = {}
    /\ InitPartIdle
    /\ InitConcIdle

SpecConc == InitConc /\ [][NextConc]_vars

----------------------------------------------------------------------------
(* What the logs say. *)

IsDownload(e) == e.ev = "download"
IsUpload(e) == e.ev = "upload"
IsNewSession(e) == e.ev = "newSession"
IsProbe(e) == e.ev = "probe"

\* the store calls of the download and of the upload, in order
DlCalls == SelectSeq(dlLog, IsDownload)
UpCalls == SelectSeq(upLog, IsUpload)
GcBuilds == SelectSeq(gcLog, IsNewSession)
GcProbes == SelectSeq(gcLog, IsProbe)

FailedTwice(calls) == Len(calls) >= 2 /\ ~calls[1].ok /\ ~calls[2].ok
FailedTwiceThenOk(calls) == Len(calls) = 3 /\ FailedTwice(calls) /\ calls[3].ok
FailedThrice(calls) == Len(calls) = 3 /\ FailedTwice(calls) /\ ~calls[3].ok

----------------------------------------------------------------------------
(* C1: a download, and an upload, whose store call fails on attempts 1 and 2  *)
(* and succeeds on attempt 3 returns nil after exactly 3 store calls: once    *)
(* the first two calls have failed the operation does not return before it    *)
(* has made the third (an upload may return the error of a failed read        *)
(* instead), and the success of the third ends it with no error.              *)
C1_ThirdAttemptSucceeds ==
    /\ (dlPc = "done" /\ FailedTwice(DlCalls)) => Len(DlCalls) = 3
    /\ FailedTwiceThenOk(DlCalls) => (dlPc = "done" /\ dlErr = Nil)
    /\ (upPc = "done" /\ FailedTwice(UpCalls) /\ upErr.kind # "read") => Len(UpCalls) = 3
    /\ FailedTwiceThenOk(UpCalls) => (upPc = "done" /\ upErr = Nil)

C1_Witness ==
    /\ dlPc = "done" /\ FailedTwiceThenOk(DlCalls) /\ dlErr = Nil
    /\ upPc = "done" /\ FailedTwiceThenOk(UpCalls) /\ upErr = Nil

(* C2: a download, and an upload, never makes more than 3 store calls; when   *)
(* all 3 fail it has returned, and the error it returned is the error of the  *)
(* third call.                                                                *)
C2_ThreeFailuresSurfaceLastError ==
    /\ Len(DlCalls) <= 3
    /\ Len(UpCalls) <= 3
    /\ \A i \in 1..Len(DlCalls) : DlCalls[i].attempt = i
    /\ \A i \in 1..Len(UpCalls) : UpCalls[i].attempt = i
    /\ FailedThrice(DlCalls) => (dlPc = "done" /\ dlErr = Err("download", 3))
    /\ FailedThrice(UpCalls) => (upPc = "done" /\ upErr = Err("upload", 3))

C2_Witness ==
    /\ dlPc = "done" /\ FailedThrice(DlCalls) /\ dlErr = Err("download", 3)
    /\ upPc = "done" /\ FailedThrice(UpCalls) /\ upErr = Err("upload", 3)

(* C3: on every attempt of UploadToS3 the body handed to the store is the     *)
(* full source stream, and the object a successful upload stores is the       *)
(* complete source.                                                           *)
C3_BodyIsFullSource ==
    /\ \A i \in 1..Len(UpCalls) : UpCalls[i].data = upSource
    /\ (upPc = "done" /\ upErr = Nil /\ UpCalls # <<>>) =>
            store[<<upBucket, upKey>>] = upSource

(* C4: a successful download that started after a successful upload to the    *)
(* same bucket and key leaves the uploaded source in the sink.                *)
C4_RoundTrip ==
    (dlPc = "done" /\ dlErr = Nil /\ dlAfterUp /\ DlCalls # <<>>) => dlSink = upSource

(* C5: when DownloadFromS3 returns nil the sink holds exactly the bytes of    *)
(* the object the successful attempt read, once.                              *)
C5_SinkIsObjectOnce ==
    (dlPc = "done" /\ dlErr = Nil /\ DlCalls # <<>>) =>
        dlSink = DlCalls[Len(DlCalls)].data

(* C6: GetClientToS3 builds at most 3 sessions, the i-th in attempt i; a     *)
(* probe comes right after the successful construction of the same attempt   *)
(* and probes the session built there; a construction that fails in attempt  *)
(* 1 or 2 is followed by a sleep and the construction of the next attempt;   *)
(* a successful probe is the last call made, and the session of its attempt  *)
(* is returned.                                                              *)
C6_BuildProbeRetry ==
    /\ Len(GcBuilds) <= 3
    /\ \A i \in 1..Len(GcBuilds) : GcBuilds[i].attempt = i
    /\ \A j \in 1..Len(gcLog) :
          LET e == gcLog[j]
          IN  /\ IsProbe(e) =>
                    /\ j > 1
                    /\ IsNewSession(gcLog[j - 1])
                    /\ gcLog[j - 1].ok
                    /\ gcLog[j - 1].attempt = e.attempt
                    /\ e.n = e.attempt
              /\ (IsNewSession(e) /\ ~e.ok /\ e.attempt < 3) =>
                    /\ j = Len(gcLog) => gcPc = "sleep"
                    /\ j + 1 <= Len(gcLog) => gcLog[j + 1].ev = "sleep"
                    /\ j + 2 <= Len(gcLog) =>
                          /\ IsNewSession(gcLog[j + 2])
                          /\ gcLog[j + 2].attempt = e.attempt + 1
              /\ (IsProbe(e) /\ e.ok) =>
                    /\ j = Len(gcLog)
                    /\ gcPc = "done"
                    /\ gcRet = Return(SessionOf(e.attempt), Nil)

C6_Witness ==
    /\ gcPc = "done"
    /\ Len(GcBuilds) = 3
    /\ ~GcBuilds[1].ok
    /\ Len(GcProbes) = 2
    /\ ~GcProbes[1].ok
    /\ GcProbes[2].ok
    /\ gcRet = Return(SessionOf(3), Nil)

(* C7: GetClientToS3 never returns a session together with an error, and the *)
(* session it returns is the one whose probe, the last call made, succeeded  *)
(* in the attempt that built it.                                             *)
C7_SessionOnlyWithProbeOk ==
    gcRet.returned =>
        /\ ~(gcRet.s # NoSession /\ gcRet.err # Nil)
        /\ session = gcRet.s
        /\ gcRet.s # NoSession =>
              LET e == gcLog[Len(gcLog)]
              IN  /\ IsProbe(e)
                  /\ e.ok
                  /\ gcRet.s = SessionOf(e.n)
                  /\ e.attempt = e.n
                  /\ e.attempt = gcAttempt

C7_Witness ==
    /\ gcRet.returned
    /\ gcRet = Return(SessionOf(2), Nil)
    /\ ~GcProbes[1].ok

(* C8 as amended: GetClientToS3 never returns a nil session with a nil       *)
(* error; when it returns no session it has used its 3 attempts and returns  *)
(* the error of the third.                                                   *)
C8_NoSessionMeansError ==
    (gcRet.returned /\ gcRet.s = NoSession) =>
        /\ gcRet.err # Nil
        /\ gcAttempt = 3
        /\ gcRet.err.attempt = 3

C8_Witness ==
    /\ gcRet.returned
    /\ gcRet.s = NoSession
    /\ gcRet.err = Err("probe", 3)
    /\ Len(GcProbes) = 3

(* C8 as stated: when GetClientToS3 has used its 3 attempts without a        *)
(* session, it returns a nil session with a nil error.                       *)
C8_ExhaustedReturnsNilNil ==
    (gcRet.returned /\ gcAttempt = 3 /\ gcRet.s = NoSession) => gcRet.err = Nil

(* C9: path resolution succeeds with a non-empty bucket, the first segment,  *)
(* and with the key made of the remaining segments joined by "/".            *)
C9_BucketAndJoinedKey ==
    pOut.op = "resolve" =>
        /\ pOut.err = Nil
        /\ pOut.bucket # <<>>
        /\ pOut.bucket = Split(pPath)[1]
        /\ pOut.key = StringsJoin(Tail(Split(pPath)))

(* C10: every upload call of an UploadToS3 whose destination has no "/" uses *)
(* as key what follows the last "/" of fromPath; with a "/" in the           *)
(* destination the key is decided by the destination alone.                  *)
C10_KeyDefaultsToFileName ==
    /\ \A i \in 1..Len(UpCalls) :
          UpCalls[i].key = IF HasSep(upTo)
                           THEN initS3Variables(Split(upTo))[2]
                           ELSE FilepathSplit(upFrom)[2]
    /\ upPc \notin {"idle"} =>
          upKey = IF HasSep(upTo)
                  THEN initS3Variables(Split(upTo))[2]
                  ELSE FilepathSplit(upFrom)[2]

C10_Witness ==
    /\ upTo = Str1("b")
    /\ upFrom = Str3("d", "/", "f")
    /\ Len(UpCalls) = 3
    /\ \A i \in 1..3 : UpCalls[i].key = Str1("f")
    /\ UpCalls[3].ok

----------------------------------------------------------------------------
(* What the lister was served. *)

RECURSIVE Flatten(_)
Flatten(pages) == IF pages = <<>> THEN <<>> ELSE Head(pages) \o Flatten(Tail(pages))

\* the keys of the pages served so far, in the order served
LsServed == Flatten(lsPages)

(* C11: every line GetListOfFilesFromS3 has produced, prepended with the     *)
(* resolved prefix, is the key the store returned for it.                    *)
C11_PrefixPlusLineIsKey ==
    /\ Len(lsOut) = Len(LsServed)
    /\ \A i \in 1..Len(lsOut) : lsPrefix \o lsOut[i] = LsServed[i]

C11_Witness ==
    /\ lsRet.returned
    /\ lsRet.err = Nil
    /\ lsPrefix = Str1("a")
    /\ \E i \in 1..Len(lsRet.lines) :
          /\ LsServed[i] = Str3("a", "/", "a")
          /\ lsRet.lines[i] = <<"/", "a">>

----------------------------------------------------------------------------
(* Sizes compared without leaving TLC's integers. *)

\* ceil(fileSize / maxParts)
CeilDivMaxParts(fileSize) == fileSize.hi + (IF fileSize.lo > 0 THEN 1 ELSE 0)

\* a <= b
SizeLeq(a, b) == a.hi < b.hi \/ (a.hi = b.hi /\ a.lo <= b.lo)

\* maxParts * n
TimesMaxParts(n) == Size(n, 0)

(* C12: calculatePartSize gives exactly 5 MiB when fileSize / 10000 is below  *)
(* 5 MiB, ceil(fileSize / 10000) for every larger fileSize, and never less    *)
(* than 5 MiB.                                                                *)
C12_FloorOrCeiling ==
    psOut.done =>
        /\ psOut.partSize >= MinPartSize
        /\ psOut.partSize = IF psSize.hi < MinPartSize
                            THEN MinPartSize
                            ELSE CeilDivMaxParts(psSize)

(* C13: fileSize bytes in parts of calculatePartSize(fileSize) bytes are at   *)
(* most 10000 parts: ceil(fileSize / partSize) <= 10000, which is             *)
(* fileSize <= 10000 * partSize.                                              *)
C13_AtMostMaxParts ==
    psOut.done => SizeLeq(psSize, TimesMaxParts(psOut.partSize))

----------------------------------------------------------------------------
(* C15: two invocations running at once, on one session, do not touch each   *)
(* other: the session stays as it was built, each invocation counts its own  *)
(* attempts and makes at most 3 store calls, and what it returns is the      *)
(* error of its own last call (nil when that call succeeded).                *)
C15_InvocationsIndependent ==
    /\ session = gcRet.s
    /\ \A p \in Invocations :
          /\ cAttempt[p] <= 3
          /\ cLog[p].calls <= 3
          /\ cLog[p].calls <= cAttempt[p]
          /\ cRet[p].returned => cRet[p].err = cLog[p].last.err

----------------------------------------------------------------------------
\* the calls an attempt can fail on, and the backoff
IsSleep(e) == e.ev = "sleep"
IsStoreCall(e) == IsNewSession(e) \/ IsProbe(e) \/ IsDownload(e) \/ IsUpload(e)

\* the backoff discipline of one retry loop, on its log
BackoffDiscipline(log, pc, attempt, attempts) ==
    /\ Len(SelectSeq(log, IsSleep)) <= attempts - 1
    /\ \A i \in 1..Len(log) :
          /\ IsSleep(log[i]) =>
                /\ i > 1
                /\ IsStoreCall(log[i - 1]) /\ ~log[i - 1].ok
                /\ log[i - 1].attempt = log[i].attempt
                /\ log[i].n = log[i].attempt
                /\ log[i].attempt < attempts
                /\ i < Len(log) => log[i + 1].attempt = log[i].attempt + 1
                /\ i = Len(log) => pc = "loop" \/ attempt = log[i].attempt + 1
          /\ (IsStoreCall(log[i]) /\ ~log[i].ok /\ log[i].attempt < attempts) =>
                IF i < Len(log)
                THEN IsSleep(log[i + 1])
                ELSE pc = "sleep" /\ attempt = log[i].attempt
          /\ (IsStoreCall(log[i]) /\ ~log[i].ok /\ log[i].attempt = attempts) =>
                i = Len(log) /\ pc = "done"
          /\ (IsUpload(log[i]) \/ IsDownload(log[i]) \/ IsProbe(log[i])) /\ log[i].ok =>
                i = Len(log) /\ pc = "done"

(* C16: in the loops of GetClientToS3, DownloadFromS3 and UploadToS3 every   *)
(* sleep directly follows a failed call of an attempt before the third and   *)
(* is given that attempt's number; every such failed call is followed by     *)
(* exactly one sleep, and the next attempt starts only after it; nothing     *)
(* follows a successful attempt or a failed third one, so an invocation      *)
(* sleeps at most twice.                                                     *)
C16_SleepAfterEachFailedNonFinal ==
    /\ BackoffDiscipline(gcLog, gcPc, gcAttempt, gcAttempts)
    /\ BackoffDiscipline(dlLog, dlPc, dlAttempt, dlAttempts)
    /\ BackoffDiscipline(upLog, upPc, upAttempt, upAttempts)

SleptOneThenTwo(log) ==
    LET sleeps == SelectSeq(log, IsSleep)
    IN  Len(sleeps) = 2 /\ sleeps[1].n = 1 /\ sleeps[2].n = 2

C16_Witness ==
    /\ Len(SelectSeq(gcLog, IsSleep)) >= 1 /\ gcPc = "done"
    /\ SleptOneThenTwo(dlLog) /\ dlPc = "done" /\ FailedThrice(DlCalls)
    /\ SleptOneThenTwo(upLog) /\ upPc = "done" /\ FailedTwiceThenOk(UpCalls)

----------------------------------------------------------------------------
IsRead(e) == e.ev = "read"

(* C17: a read of UploadToS3 that fails with an error other than the end of  *)
(* the stream ends the invocation with that read error, in whichever attempt *)
(* it happens: it is the last thing the invocation does, so no upload of     *)
(* that attempt, no sleep and no further attempt follow.  A read that        *)
(* returns bytes or the end of the stream, an empty source included, is      *)
(* followed by the upload of the same attempt.                               *)
C17_ReadErrorReturnsAtOnce ==
    \A i \in 1..Len(upLog) :
        IsRead(upLog[i]) =>
            IF ~upLog[i].ok
            THEN /\ i = Len(upLog)
                 /\ upPc = "done"
                 /\ upAttempt = upLog[i].attempt
                 /\ upErr = Err("read", upLog[i].attempt)
            ELSE IF i < Len(upLog)
                 THEN IsUpload(upLog[i + 1]) /\ upLog[i + 1].attempt = upLog[i].attempt
                 ELSE upPc = "upload" /\ upAttempt = upLog[i].attempt

C17_Witness ==
    /\ upSource = <<>>
    /\ Len(upLog) = 4
    /\ IsRead(upLog[1]) /\ upLog[1].ok /\ upLog[1].n = 0
    /\ IsUpload(upLog[2]) /\ upLog[2].attempt = 1
    /\ IsRead(upLog[4]) /\ ~upLog[4].ok /\ upLog[4].attempt = 2
    /\ upPc = "done" /\ upErr = Err("read", 2)

----------------------------------------------------------------------------
(* C18: GetListOfFilesFromS3 asks for pages until the store says a page is   *)
(* the last: while keys are left it is still enumerating, and when it        *)
(* returns without error no key is left, the pages it got are all the keys   *)
(* under the prefix in the store's order, and its result has one line per    *)
(* key of every page, page after page, in that order, none dropped.          *)
C18_AllPagesInOrder ==
    /\ (lsPc = "page" /\ lsPages # <<>>) => lsPending # <<>>
    /\ (lsRet.returned /\ lsRet.err = Nil) =>
          /\ lsPending = <<>>
          /\ LsServed = KeysUnder(lsObjects, lsPrefix)
          /\ lsRet.lines = StripAll(LsServed, lsPrefix)
          /\ Len(lsRet.lines) = Cardinality({k \in lsObjects : HasPrefix(k, lsPrefix)})

C18_Witness ==
    /\ lsRet.returned /\ lsRet.err = Nil
    /\ Len(lsPages) = 2 /\ Len(lsPages[1]) = 1 /\ Len(lsPages[2]) = 1
    /\ lsPrefix = Str1("a")
    /\ lsRet.lines = <<<<>>, <<"/", "a">>>>

(* C19: GetListOfFilesFromS3 does not retry: when a page request fails, on   *)
(* the first page or a later one, the function is done, with that request's  *)
(* error and a nil result (the lines of the pages before it are dropped),    *)
(* and no page was asked for again.                                          *)
C19_FailureReturnsNilAtOnce ==
    (lsRet.returned /\ lsRet.err # Nil) =>
        /\ lsPc = "done"
        /\ lsRet.lines = <<>>
        /\ lsRet.err = Err("list", Len(lsPages) + 1)
        /\ LsServed \o lsPending = KeysUnder(lsObjects, lsPrefix)
        /\ Len(lsOut) = Len(LsServed)

C19_Witness ==
    /\ lsRet.returned /\ lsRet.err = Err("list", 2)
    /\ Len(lsPages) = 1 /\ lsOut # <<>> /\ lsPending # <<>>
    /\ lsRet.lines = <<>>

----------------------------------------------------------------------------
(* C20: whatever the destination path and the source hint, no upload         *)
(* request of UploadToS3 carries an empty object key.                        *)
C20_NoUploadWithEmptyKey ==
    /\ upPc = "upload" => upKey # <<>>
    /\ \A i \in 1..Len(upLog) : IsUpload(upLog[i]) => upLog[i].key # <<>>

====
